---- MODULE Spec2Model ----
(***************************************************************************)
(* The card and bitcoinreceiver client packages: each operation builds a   *)
(* URL path and hands one request to the backend.  A caller invokes one    *)
(* operation at a time, holds its result (a record and an error, or an     *)
(* iterator), may advance a held iterator, and then releases the result.   *)
(***************************************************************************)
EXTENDS Integers, Sequences, FiniteSets, TLC

VARIABLES
    stripeKey,      \* the package variable stripe.Key
    stripeBackend,  \* the backend registered for stripe.APIBackend
    client,         \* an explicitly constructed Client{B, Key}
    last,           \* the call the caller holds the result of
    nCalls,         \* backend invocations made so far
    nPassed         \* card/receiver operations and page fetches that passed validation

vars == <<stripeKey, stripeBackend, client, last, nCalls, nPassed>>

----------------------------------------------------------------------------
\* Bounds of the model.

MaxLen == 2      \* longest identifier
MaxOps == 2      \* backend invocations in one behaviour
MaxPages == 2    \* page fetches on one iterator
MaxItems == 1    \* records in one page

\* Identifiers: an unreserved and a reserved character alternate, so that
\* every length up to MaxLen occurs and escaping has something to do.
Ident(n) == [i \in 1..n |-> IF i % 2 = 1 THEN "/" ELSE "a"]
Strings == {Ident(n) : n \in 0..MaxLen}

Keys == {"sk_1", "sk_2"}
Backends == {"b1", "b2"}

----------------------------------------------------------------------------
\* Values of the stripe package that the two clients use.

\* *string: nil or a pointer to a string.
NilStr == [set |-> FALSE, val |-> <<>>]
String(s) == [set |-> TRUE, val |-> s]
StrPtrs == {NilStr} \cup {String(s) : s \in Strings}

StringValue(p) == IF p.set THEN p.val ELSE <<>>

\* *CardParams / *CardListParams / *BitcoinReceiver...Params.
NilParams == [nil |-> TRUE, Account |-> NilStr, Customer |-> NilStr, Recipient |-> NilStr]
CardParams == {NilParams} \cup
    [nil : {FALSE}, Account : StrPtrs, Customer : StrPtrs, Recipient : StrPtrs]
ReceiverParams == {NilParams, [NilParams EXCEPT !.nil = FALSE]}

\* How many owners the parameters name, and whether they name any.
NumSet(params) ==
    Cardinality({f \in {"Account", "Customer", "Recipient"} : params[f].set})
HasOwner(params) == ~params.nil /\ NumSet(params) >= 1

\* url.QueryEscape on one character and on a string.
EscapeChar(ch) == IF ch = "/" THEN "%2F" ELSE ch

RECURSIVE QueryEscape(_)
QueryEscape(s) ==
    IF s = <<>> THEN "" ELSE EscapeChar(Head(s)) \o QueryEscape(Tail(s))

\* FormatURLPath: Sprintf of the format with every parameter URL-escaped.  A
\* format is the sequence of its literal pieces and "%s" verbs.
RECURSIVE FormatURLPath(_, _)
FormatURLPath(format, params) ==
    IF format = <<>> THEN ""
    ELSE IF Head(format) = "%s"
         THEN QueryEscape(Head(params)) \o FormatURLPath(Tail(format), Tail(params))
         ELSE Head(format) \o FormatURLPath(Tail(format), params)

\* Errors.
NoErr == "nil"
ErrNilParams == "params should not be nil"
ErrNoOwner == "Invalid card params: either account, customer or recipient need to be set"
BackendErrs == {"api_error", "connection_error"}

\* What the backend answers to one request: its error, and for a list the
\* number of records and the has-more flag it decoded into the container.
NoReply == [err |-> NoErr, n |-> 0, more |-> FALSE]
Replies == [err : {NoErr} \cup BackendErrs, n : {0}, more : {FALSE}]
Pages == [err : {NoErr} \cup BackendErrs, n : 0..MaxItems, more : BOOLEAN]

\* One invocation of Backend.Call or Backend.CallRaw.
Request(fn, c, method, path) ==
    [fn |-> fn, b |-> c.B, method |-> method, path |-> path, key |-> c.Key]

\* What an operation returns, with the requests it made on the way.
Returned(rec, err, reqs) == [rec |-> rec, err |-> err, reqs |-> reqs]

----------------------------------------------------------------------------
\* Package card.

\* CardNew without the final else: parameters naming no owner go to the
\* recipient template.
CardNew_NoOwnerCheck(c, params, reply) ==
    IF params.nil THEN Returned("nil", ErrNilParams, <<>>)
    ELSE IF params.Account.set THEN
        Returned("card", reply.err, <<Request("CallRaw", c, "POST",
            FormatURLPath(<<"/accounts/", "%s", "/external_accounts">>,
                          <<StringValue(params.Account)>>))>>)
    ELSE IF params.Customer.set THEN
        Returned("card", reply.err, <<Request("CallRaw", c, "POST",
            FormatURLPath(<<"/customers/", "%s", "/sources">>,
                          <<StringValue(params.Customer)>>))>>)
    ELSE
        Returned("card", reply.err, <<Request("CallRaw", c, "POST",
            FormatURLPath(<<"/recipients/", "%s", "/cards">>,
                          <<StringValue(params.Recipient)>>))>>)

CardNew(c, params, reply) ==
    IF params.nil THEN Returned("nil", ErrNilParams, <<>>)
    ELSE IF params.Account.set THEN
        Returned("card", reply.err, <<Request("CallRaw", c, "POST",
            FormatURLPath(<<"/accounts/", "%s", "/external_accounts">>,
                          <<StringValue(params.Account)>>))>>)
    ELSE IF params.Customer.set THEN
        Returned("card", reply.err, <<Request("CallRaw", c, "POST",
            FormatURLPath(<<"/customers/", "%s", "/sources">>,
                          <<StringValue(params.Customer)>>))>>)
    ELSE IF params.Recipient.set THEN
        Returned("card", reply.err, <<Request("CallRaw", c, "POST",
            FormatURLPath(<<"/recipients/", "%s", "/cards">>,
                          <<StringValue(params.Recipient)>>))>>)
    ELSE Returned("nil", ErrNoOwner, <<>>)

\* CardGet with the customer's cards under /cards instead of /sources.
CardGet_WrongTemplate(c, id, params, reply) ==
    IF params.nil THEN Returned("nil", ErrNilParams, <<>>)
    ELSE IF params.Account.set THEN
        Returned("card", reply.err, <<Request("Call", c, "GET",
            FormatURLPath(<<"/accounts/", "%s", "/external_accounts/", "%s">>,
                          <<StringValue(params.Account), id>>))>>)
    ELSE IF params.Customer.set THEN
        Returned("card", reply.err, <<Request("Call", c, "GET",
            FormatURLPath(<<"/customers/", "%s", "/cards/", "%s">>,
                          <<StringValue(params.Customer), id>>))>>)
    ELSE IF params.Recipient.set THEN
        Returned("card", reply.err, <<Request("Call", c, "GET",
            FormatURLPath(<<"/recipients/", "%s", "/cards/", "%s">>,
                          <<StringValue(params.Recipient), id>>))>>)
    ELSE Returned("nil", ErrNoOwner, <<>>)

\* CardGet returning no record when the backend fails.
CardGet_NilOnError(c, id, params, reply) ==
    LET rec == IF reply.err = NoErr THEN "card" ELSE "nil" IN
    IF params.nil THEN Returned("nil", ErrNilParams, <<>>)
    ELSE IF params.Account.set THEN
        Returned(rec, reply.err, <<Request("Call", c, "GET",
            FormatURLPath(<<"/accounts/", "%s", "/external_accounts/", "%s">>,
                          <<StringValue(params.Account), id>>))>>)
    ELSE IF params.Customer.set THEN
        Returned(rec, reply.err, <<Request("Call", c, "GET",
            FormatURLPath(<<"/customers/", "%s", "/sources/", "%s">>,
                          <<StringValue(params.Customer), id>>))>>)
    ELSE IF params.Recipient.set THEN
        Returned(rec, reply.err, <<Request("Call", c, "GET",
            FormatURLPath(<<"/recipients/", "%s", "/cards/", "%s">>,
                          <<StringValue(params.Recipient), id>>))>>)
    ELSE Returned("nil", ErrNoOwner, <<>>)

CardGet(c, id, params, reply) ==
    IF params.nil THEN Returned("nil", ErrNilParams, <<>>)
    ELSE IF params.Account.set THEN
        Returned("card", reply.err, <<Request("Call", c, "GET",
            FormatURLPath(<<"/accounts/", "%s", "/external_accounts/", "%s">>,
                          <<StringValue(params.Account), id>>))>>)
    ELSE IF params.Customer.set THEN
        Returned("card", reply.err, <<Request("Call", c, "GET",
            FormatURLPath(<<"/customers/", "%s", "/sources/", "%s">>,
                          <<StringValue(params.Customer), id>>))>>)
    ELSE IF params.Recipient.set THEN
        Returned("card", reply.err, <<Request("Call", c, "GET",
            FormatURLPath(<<"/recipients/", "%s", "/cards/", "%s">>,
                          <<StringValue(params.Recipient), id>>))>>)
    ELSE Returned("nil", ErrNoOwner, <<>>)

\* CardUpdate looking at the customer before the account.
CardUpdate_CustomerFirst(c, id, params, reply) ==
    IF params.nil THEN Returned("nil", ErrNilParams, <<>>)
    ELSE IF params.Customer.set THEN
        Returned("card", reply.err, <<Request("Call", c, "POST",
            FormatURLPath(<<"/customers/", "%s", "/sources/", "%s">>,
                          <<StringValue(params.Customer), id>>))>>)
    ELSE IF params.Account.set THEN
        Returned("card", reply.err, <<Request("Call", c, "POST",
            FormatURLPath(<<"/accounts/", "%s", "/external_accounts/", "%s">>,
                          <<StringValue(params.Account), id>>))>>)
    ELSE IF params.Recipient.set THEN
        Returned("card", reply.err, <<Request("Call", c, "POST",
            FormatURLPath(<<"/recipients/", "%s", "/cards/", "%s">>,
                          <<StringValue(params.Recipient), id>>))>>)
    ELSE Returned("nil", ErrNoOwner, <<>>)

CardUpdate(c, id, params, reply) ==
    IF params.nil THEN Returned("nil", ErrNilParams, <<>>)
    ELSE IF params.Account.set THEN
        Returned("card", reply.err, <<Request("Call", c, "POST",
            FormatURLPath(<<"/accounts/", "%s", "/external_accounts/", "%s">>,
                          <<StringValue(params.Account), id>>))>>)
    ELSE IF params.Customer.set THEN
        Returned("card", reply.err, <<Request("Call", c, "POST",
            FormatURLPath(<<"/customers/", "%s", "/sources/", "%s">>,
                          <<StringValue(params.Customer), id>>))>>)
    ELSE IF params.Recipient.set THEN
        Returned("card", reply.err, <<Request("Call", c, "POST",
            FormatURLPath(<<"/recipients/", "%s", "/cards/", "%s">>,
                          <<StringValue(params.Recipient), id>>))>>)
    ELSE Returned("nil", ErrNoOwner, <<>>)

\* The request CardDel makes for parameters that name an owner.
CardDelRequest(c, id, params) ==
    IF params.Account.set THEN
        Request("Call", c, "DELETE",
            FormatURLPath(<<"/accounts/", "%s", "/external_accounts/", "%s">>,
                          <<StringValue(params.Account), id>>))
    ELSE IF params.Customer.set THEN
        Request("Call", c, "DELETE",
            FormatURLPath(<<"/customers/", "%s", "/sources/", "%s">>,
                          <<StringValue(params.Customer), id>>))
    ELSE
        Request("Call", c, "DELETE",
            FormatURLPath(<<"/recipients/", "%s", "/cards/", "%s">>,
                          <<StringValue(params.Recipient), id>>))

\* CardDel refusing parameters that name several owners.
CardDel_RejectsSeveral(c, id, params, reply) ==
    IF params.nil THEN Returned("nil", ErrNilParams, <<>>)
    ELSE IF NumSet(params) # 1 THEN Returned("nil", ErrNoOwner, <<>>)
    ELSE Returned("card", reply.err, <<CardDelRequest(c, id, params)>>)

\* CardDel sending the request again when the backend fails.
CardDel_Retries(c, id, params, reply) ==
    IF params.nil THEN Returned("nil", ErrNilParams, <<>>)
    ELSE IF NumSet(params) = 0 THEN Returned("nil", ErrNoOwner, <<>>)
    ELSE IF reply.err = NoErr
         THEN Returned("card", reply.err, <<CardDelRequest(c, id, params)>>)
         ELSE Returned("card", reply.err,
                       <<CardDelRequest(c, id, params), CardDelRequest(c, id, params)>>)

CardDel(c, id, params, reply) ==
    IF params.nil THEN Returned("nil", ErrNilParams, <<>>)
    ELSE IF params.Account.set THEN
        Returned("card", reply.err, <<Request("Call", c, "DELETE",
            FormatURLPath(<<"/accounts/", "%s", "/external_accounts/", "%s">>,
                          <<StringValue(params.Account), id>>))>>)
    ELSE IF params.Customer.set THEN
        Returned("card", reply.err, <<Request("Call", c, "DELETE",
            FormatURLPath(<<"/customers/", "%s", "/sources/", "%s">>,
                          <<StringValue(params.Customer), id>>))>>)
    ELSE IF params.Recipient.set THEN
        Returned("card", reply.err, <<Request("Call", c, "DELETE",
            FormatURLPath(<<"/recipients/", "%s", "/cards/", "%s">>,
                          <<StringValue(params.Recipient), id>>))>>)
    ELSE Returned("nil", ErrNoOwner, <<>>)

\* The pagination iterator of the stripe package.  A query is the page-fetch
\* closure with the variables it captured; the iterator is lazy: GetIter
\* fetches nothing, and each advancement runs the query once.
NoClient == [B |-> "", Key |-> ""]
Query(pkg, c, path, outerErr) ==
    [pkg |-> pkg, c |-> c, path |-> path, outerErr |-> outerErr]
NoIter ==
    [present |-> FALSE, query |-> Query("", NoClient, "", NoErr),
     fetched |-> 0, calls |-> 0, err |-> NoErr, items |-> 0, more |-> FALSE]

GetIter(query) == [NoIter EXCEPT !.present = TRUE, !.query = query]

\* What one run of a query returns: the page, its meta and the error.
Fetched(items, more, err, reqs) ==
    [items |-> items, more |-> more, err |-> err, reqs |-> reqs]

IterNext(it, got) ==
    [it EXCEPT !.fetched = @ + 1, !.calls = @ + Len(got.reqs),
               !.err = got.err, !.items = got.items, !.more = got.more]

CardList(c, listParams) ==
    IF listParams.nil THEN
        GetIter(Query("card", c, "", ErrNilParams))
    ELSE IF listParams.Account.set THEN
        GetIter(Query("card", c,
            FormatURLPath(<<"/accounts/", "%s", "/external_accounts?object=card">>,
                          <<StringValue(listParams.Account)>>), NoErr))
    ELSE IF listParams.Customer.set THEN
        GetIter(Query("card", c,
            FormatURLPath(<<"/customers/", "%s", "/sources?object=card">>,
                          <<StringValue(listParams.Customer)>>), NoErr))
    ELSE IF listParams.Recipient.set THEN
        GetIter(Query("card", c,
            FormatURLPath(<<"/recipients/", "%s", "/cards">>,
                          <<StringValue(listParams.Recipient)>>), NoErr))
    ELSE GetIter(Query("card", c, "", ErrNoOwner))

\* The closure asking the backend before it looks at outerErr.
CardListQuery_CallsFirst(q, page) ==
    IF q.outerErr # NoErr
    THEN Fetched(0, FALSE, q.outerErr, <<Request("CallRaw", q.c, "GET", q.path)>>)
    ELSE Fetched(page.n, page.more, page.err,
                 <<Request("CallRaw", q.c, "GET", q.path)>>)

\* The closure CardList hands to GetIter.
CardListQuery(q, page) ==
    IF q.outerErr # NoErr THEN Fetched(0, FALSE, q.outerErr, <<>>)
    ELSE Fetched(page.n, page.more, page.err,
                 <<Request("CallRaw", q.c, "GET", q.path)>>)

----------------------------------------------------------------------------
\* Package bitcoinreceiver.

\* BitcoinReceiverNew replacing the backend's error by one of its own.
BitcoinReceiverNew_WrapsErr(c, params, reply) ==
    Returned("receiver",
             IF reply.err = NoErr THEN NoErr ELSE "bitcoinreceiver: request failed",
             <<Request("Call", c, "POST", "/bitcoin/receivers")>>)

BitcoinReceiverNew(c, params, reply) ==
    Returned("receiver", reply.err,
             <<Request("Call", c, "POST", "/bitcoin/receivers")>>)

BitcoinReceiverGet(c, id, params, reply) ==
    Returned("receiver", reply.err, <<Request("Call", c, "GET",
        FormatURLPath(<<"/bitcoin/receivers/", "%s">>, <<id>>))>>)

\* BitcoinReceiverUpdate refusing nil parameters.
BitcoinReceiverUpdate_Validates(c, id, params, reply) ==
    IF params.nil THEN Returned("nil", ErrNilParams, <<>>)
    ELSE Returned("receiver", reply.err, <<Request("Call", c, "POST",
            FormatURLPath(<<"/bitcoin/receivers/", "%s">>, <<id>>))>>)

BitcoinReceiverUpdate(c, id, params, reply) ==
    Returned("receiver", reply.err, <<Request("Call", c, "POST",
        FormatURLPath(<<"/bitcoin/receivers/", "%s">>, <<id>>))>>)

BitcoinReceiverList(c, listParams) ==
    GetIter(Query("bitcoinreceiver", c, "/bitcoin/receivers", NoErr))

BitcoinReceiverListQuery(q, page) ==
    Fetched(page.n, page.more, page.err,
            <<Request("CallRaw", q.c, "GET", "/bitcoin/receivers")>>)

----------------------------------------------------------------------------
\* The callers.

\* getC answering with the key and backend of package initialisation.
getC_Stale == [B |-> "b1", Key |-> "sk_1"]

\* getC of either package: the default client, resolved from the globals.
getC == [B |-> stripeBackend, Key |-> stripeKey]

\* A call goes through a package-level function or through the explicit client.
Vias == {"package", "client"}
ClientOf(via) == IF via = "package" THEN getC ELSE client

NoCall ==
    [pkg |-> "", op |-> "none", via |-> "", id |-> <<>>, params |-> NilParams,
     rec |-> "nil", err |-> NoErr, reqs |-> <<>>, reply |-> NoReply, iter |-> NoIter]

\* The caller now holds what the operation returned.
Hold(pkg, op, via, id, params, out, reply) ==
    [NoCall EXCEPT !.pkg = pkg, !.op = op, !.via = via, !.id = id,
                   !.params = params, !.rec = out.rec, !.err = out.err,
                   !.reqs = out.reqs,
                   !.reply = IF out.reqs = <<>> THEN NoReply ELSE reply]

HoldIter(pkg, via, params, it) ==
    [NoCall EXCEPT !.pkg = pkg, !.op = "List", !.via = via, !.params = params,
                   !.iter = it]

Idle == last.op = "none" /\ nCalls < MaxOps

Count(out, passed) ==
    /\ nCalls' = nCalls + Len(out.reqs)
    /\ nPassed' = nPassed + (IF passed THEN 1 ELSE 0)
    /\ UNCHANGED <<stripeKey, stripeBackend, client>>

CardNewOp ==
    /\ Idle
    /\ \E via \in Vias, params \in CardParams, reply \in Replies :
        LET out == CardNew(ClientOf(via), params, reply) IN
        /\ last' = Hold("card", "New", via, <<>>, params, out, reply)
        /\ Count(out, HasOwner(params))

CardGetOp ==
    /\ Idle
    /\ \E via \in Vias, id \in Strings, params \in CardParams, reply \in Replies :
        LET out == CardGet(ClientOf(via), id, params, reply) IN
        /\ last' = Hold("card", "Get", via, id, params, out, reply)
        /\ Count(out, HasOwner(params))

CardUpdateOp ==
    /\ Idle
    /\ \E via \in Vias, id \in Strings, params \in CardParams, reply \in Replies :
        LET out == CardUpdate(ClientOf(via), id, params, reply) IN
        /\ last' = Hold("card", "Update", via, id, params, out, reply)
        /\ Count(out, HasOwner(params))

CardDelOp ==
    /\ Idle
    /\ \E via \in Vias, id \in Strings, params \in CardParams, reply \in Replies :
        LET out == CardDel(ClientOf(via), id, params, reply) IN
        /\ last' = Hold("card", "Del", via, id, params, out, reply)
        /\ Count(out, HasOwner(params))

CardListOp ==
    /\ Idle
    /\ \E via \in Vias, listParams \in CardParams :
        /\ last' = HoldIter("card", via, listParams, CardList(ClientOf(via), listParams))
        /\ UNCHANGED <<stripeKey, stripeBackend, client, nCalls, nPassed>>

\* The caller advances the card iterator it holds: one page fetch.
CardIterNext ==
    /\ last.iter.present /\ last.pkg = "card"
    /\ last.iter.fetched < MaxPages /\ nCalls < MaxOps
    /\ \E page \in Pages :
        LET got == CardListQuery(last.iter.query, page) IN
        /\ last' = [last EXCEPT !.op = "Next", !.err = got.err, !.reqs = got.reqs,
                       !.reply = IF got.reqs = <<>> THEN NoReply ELSE page,
                       !.iter = IterNext(@, got)]
        /\ Count(got, HasOwner(last.params))

BitcoinReceiverNewOp ==
    /\ Idle
    /\ \E via \in Vias, params \in ReceiverParams, reply \in Replies :
        LET out == BitcoinReceiverNew(ClientOf(via), params, reply) IN
        /\ last' = Hold("bitcoinreceiver", "New", via, <<>>, params, out, reply)
        /\ Count(out, TRUE)

BitcoinReceiverGetOp ==
    /\ Idle
    /\ \E via \in Vias, id \in Strings, params \in ReceiverParams, reply \in Replies :
        LET out == BitcoinReceiverGet(ClientOf(via), id, params, reply) IN
        /\ last' = Hold("bitcoinreceiver", "Get", via, id, params, out, reply)
        /\ Count(out, TRUE)

BitcoinReceiverUpdateOp ==
    /\ Idle
    /\ \E via \in Vias, id \in Strings, params \in ReceiverParams, reply \in Replies :
        LET out == BitcoinReceiverUpdate(ClientOf(via), id, params, reply) IN
        /\ last' = Hold("bitcoinreceiver", "Update", via, id, params, out, reply)
        /\ Count(out, TRUE)

BitcoinReceiverListOp ==
    /\ Idle
    /\ \E via \in Vias, listParams \in ReceiverParams :
        /\ last' = HoldIter("bitcoinreceiver", via, listParams,
                            BitcoinReceiverList(ClientOf(via), listParams))
        /\ UNCHANGED <<stripeKey, stripeBackend, client, nCalls, nPassed>>

BitcoinReceiverIterNext ==
    /\ last.iter.present /\ last.pkg = "bitcoinreceiver"
    /\ last.iter.fetched < MaxPages /\ nCalls < MaxOps
    /\ \E page \in Pages :
        LET got == BitcoinReceiverListQuery(last.iter.query, page) IN
        /\ last' = [last EXCEPT !.op = "Next", !.err = got.err, !.reqs = got.reqs,
                       !.reply = IF got.reqs = <<>> THEN NoReply ELSE page,
                       !.iter = IterNext(@, got)]
        /\ Count(got, TRUE)

\* The caller drops the result it holds: nothing of the request remains.
Release ==
    /\ last.op # "none"
    /\ last' = NoCall
    /\ UNCHANGED <<stripeKey, stripeBackend, client, nCalls, nPassed>>

\* The application assigns stripe.Key, or registers another backend, between
\* two calls or between two advancements of an iterator.
Configurable == last.op \in {"none", "List", "Next"}

SetKey ==
    /\ Configurable
    /\ \E k \in Keys \ {stripeKey} :
        /\ stripeKey' = k
        /\ UNCHANGED <<stripeBackend, client, last, nCalls, nPassed>>

SetBackend ==
    /\ Configurable
    /\ \E b \in Backends \ {stripeBackend} :
        /\ stripeBackend' = b
        /\ UNCHANGED <<stripeKey, client, last, nCalls, nPassed>>

Init ==
    /\ stripeKey = "sk_1"
    /\ stripeBackend = "b1"
    /\ client = [B |-> "b2", Key |-> "sk_2"]
    /\ last = NoCall
    /\ nCalls = 0
    /\ nPassed = 0

Next ==
    \/ CardNewOp \/ CardGetOp \/ CardUpdateOp \/ CardDelOp
    \/ CardListOp \/ CardIterNext
    \/ BitcoinReceiverNewOp \/ BitcoinReceiverGetOp \/ BitcoinReceiverUpdateOp
    \/ BitcoinReceiverListOp \/ BitcoinReceiverIterNext
    \/ Release \/ SetKey \/ SetBackend

Spec == Init /\ [][Next]_vars

----------------------------------------------------------------------------
\* Vocabulary of the properties.

Fields == {"Account", "Customer", "Recipient"}
WithId == {"Get", "Update", "Del"}
Direct == {"New", "Get", "Update", "Del"}
ValidationErrs == {ErrNilParams, ErrNoOwner}

Did(pkg, ops) == last.pkg = pkg /\ last.op \in ops
Sent == Len(last.reqs)

\* The first identifier that is set, in the order account, customer, recipient.
FirstOwner(params) ==
    IF params.Account.set THEN "Account"
    ELSE IF params.Customer.set THEN "Customer" ELSE "Recipient"

\* The one identifier that is set, when exactly one is.
OnlyOwner(params) == CHOOSE f \in Fields : params[f].set

\* The URL templates as documented, written out as text.
Template(f, v) ==
    IF f = "Account" THEN "/accounts/" \o QueryEscape(v) \o "/external_accounts"
    ELSE IF f = "Customer" THEN "/customers/" \o QueryEscape(v) \o "/sources"
    ELSE "/recipients/" \o QueryEscape(v) \o "/cards"
IdSuffix(op, id) == IF op \in WithId THEN "/" \o QueryEscape(id) ELSE ""
ObjectFilter(op, f) ==
    IF op \in {"List", "Next"} /\ f \in {"Account", "Customer"}
    THEN "?object=card" ELSE ""

\* The path the held call built: the one in its request, or for a List not
\* yet advanced the one its iterator will request.
BuiltPath == IF last.op = "List" THEN last.iter.query.path ELSE last.reqs[1].path
Built == last.op = "List" \/ Sent >= 1

MethodOf(op) ==
    IF op \in {"New", "Update"} THEN "POST"
    ELSE IF op = "Del" THEN "DELETE" ELSE "GET"

----------------------------------------------------------------------------
\* C1 (as stated): with exactly one of account, customer, recipient set, every
\* card operation builds exactly the owner's template with the identifier
\* substituted, followed by /{id} for Get, Update and Del and by nothing for
\* New and List.
C1_AsStated ==
    (Did("card", Direct \cup {"List", "Next"}) /\ ~last.params.nil
        /\ NumSet(last.params) = 1)
    => /\ Built
       /\ BuiltPath = Template(OnlyOwner(last.params),
                               last.params[OnlyOwner(last.params)].val)
                      \o IdSuffix(last.op, last.id)

\* C1 (amended): as C1, except that List appends the query ?object=card to the
\* account and the customer template; the recipient template and the paths of
\* New, Get, Update and Del are exactly as stated.
C1_ExactTemplate ==
    (Did("card", Direct \cup {"List", "Next"}) /\ ~last.params.nil
        /\ NumSet(last.params) = 1)
    => /\ Built
       /\ BuiltPath = Template(OnlyOwner(last.params),
                               last.params[OnlyOwner(last.params)].val)
                      \o IdSuffix(last.op, last.id)
                      \o ObjectFilter(last.op, OnlyOwner(last.params))

C1_Witness ==
    /\ Did("card", {"Get"}) /\ NumSet(last.params) = 1
    /\ last.params.Customer = String(<<"/">>) /\ last.id = <<"/", "a">>
    /\ Sent = 1 /\ last.reqs[1].path = "/customers/%2F/sources/%2Fa"

\* C2: New, Get, Update and Del of a card return a validation error and make
\* no backend request when the parameters are nil or name no owner.
C2_RejectedLocally ==
    (Did("card", Direct) /\ ~HasOwner(last.params))
    => /\ last.err = (IF last.params.nil THEN ErrNilParams ELSE ErrNoOwner)
       /\ last.reqs = <<>>

C2_Witness ==
    /\ Did("card", {"New"}) /\ ~last.params.nil /\ NumSet(last.params) = 0
    /\ last.err = ErrNoOwner /\ Sent = 0

\* C3 (as stated): with more than one of account, customer, recipient set, a
\* card operation returns a validation error and makes no backend request.
C3_AsStated ==
    (Did("card", Direct \cup {"Next"}) /\ NumSet(last.params) > 1)
    => last.err \in ValidationErrs /\ last.reqs = <<>>

\* C3 (amended): with more than one of account, customer, recipient set, a
\* card operation returns no validation error: it makes its one backend
\* request and returns the backend's error.
C3_SeveralOwnersAccepted ==
    (Did("card", Direct \cup {"Next"}) /\ NumSet(last.params) > 1)
    => Sent = 1 /\ last.err \notin ValidationErrs /\ last.err = last.reply.err

C3_Witness ==
    /\ Did("card", {"Del"}) /\ NumSet(last.params) = 3
    /\ Sent = 1 /\ last.err = NoErr

\* C4: every card operation picks the template of the first identifier set
\* in the order account, customer, recipient, whatever else is set.
C4_Precedence ==
    (Did("card", Direct \cup {"List", "Next"}) /\ HasOwner(last.params))
    => /\ Built
       /\ BuiltPath = Template(FirstOwner(last.params),
                               last.params[FirstOwner(last.params)].val)
                      \o IdSuffix(last.op, last.id)
                      \o ObjectFilter(last.op, FirstOwner(last.params))

C4_Witness ==
    /\ Did("card", {"Update"})
    /\ last.params.Account = String(<<>>) /\ last.params.Customer = String(<<"/">>)
    /\ last.params.Recipient = String(<<"/", "a">>) /\ last.id = <<"/">>
    /\ Sent = 1 /\ last.reqs[1].path = "/accounts//external_accounts/%2F"

\* C5: List of cards always returns an iterator and reports nothing; when the
\* parameters are nil or name no owner, an advancement of the iterator
\* surfaces the validation error with an empty page, and the iterator never
\* makes a backend request.
C5_DeferredError ==
    /\ Did("card", {"List"})
       => /\ last.iter.present /\ last.iter.fetched = 0
          /\ last.err = NoErr /\ last.iter.err = NoErr /\ last.reqs = <<>>
    /\ (Did("card", {"Next"}) /\ ~HasOwner(last.params))
       => /\ last.iter.fetched >= 1
          /\ last.err = (IF last.params.nil THEN ErrNilParams ELSE ErrNoOwner)
          /\ last.iter.err = last.err
          /\ last.iter.items = 0
          /\ last.reqs = <<>> /\ last.iter.calls = 0

C5_Witness ==
    /\ Did("card", {"Next"}) /\ ~last.params.nil /\ NumSet(last.params) = 0
    /\ last.iter.fetched = 1 /\ last.iter.err = ErrNoOwner /\ last.iter.calls = 0

\* C6: an operation that reached the backend returns exactly the backend's
\* error, nil included; a page fetch returns it together with the page.
C6_BackendErrorVerbatim ==
    (Sent >= 1)
    => /\ last.err = last.reply.err
       /\ last.op = "Next"
          => last.iter.err = last.reply.err /\ last.iter.items = last.reply.n

C6_Witness ==
    /\ Did("bitcoinreceiver", {"New"}) /\ Sent = 1
    /\ last.reply.err = "connection_error" /\ last.err = "connection_error"

\* C7: the receiver operations validate nothing: whatever the parameters, each
\* makes exactly one request (POST /bitcoin/receivers, GET or POST
\* /bitcoin/receivers/{id}, GET /bitcoin/receivers for a page) and returns
\* only the backend's error.
C7_ReceiverRequests ==
    /\ Did("bitcoinreceiver", {"New", "Get", "Update", "Next"})
       => /\ Sent = 1
          /\ last.reqs[1].method = MethodOf(last.op)
          /\ last.reqs[1].path = "/bitcoin/receivers" \o IdSuffix(last.op, last.id)
          /\ last.err \in {NoErr} \cup BackendErrs
    /\ Did("bitcoinreceiver", {"List"})
       => last.iter.present /\ last.err = NoErr /\ last.reqs = <<>>

C7_Witness ==
    /\ Did("bitcoinreceiver", {"Update"}) /\ last.params.nil /\ last.id = <<"/", "a">>
    /\ Sent = 1 /\ last.reqs[1].method = "POST"
    /\ last.reqs[1].path = "/bitcoin/receivers/%2Fa"

\* C8: a card operation or page fetch that passes validation makes exactly one
\* backend request, with the method of the operation, also when the backend
\* fails; so the requests made so far are as many as the operations and page
\* fetches that passed validation.
C8_OneRequestEach ==
    /\ (Did("card", Direct \cup {"Next"}) /\ HasOwner(last.params))
       => Sent = 1 /\ last.reqs[1].method = MethodOf(last.op)
    /\ nCalls = nPassed

C8_Witness ==
    /\ Did("card", {"Del"}) /\ HasOwner(last.params)
    /\ last.reply.err = "api_error" /\ Sent = 1 /\ last.reqs[1].method = "DELETE"
    /\ nCalls = 2 /\ nPassed = 2

\* C9: no step changes the explicit client; a call changes neither global,
\* a call through a package function uses the global key and backend as they
\* are at the call and a call on the client uses the client's, and a page
\* fetch uses the client its List resolved.
C9_Step ==
    /\ client' = client
    /\ (last' # last /\ last'.op # "none")
       => /\ stripeKey' = stripeKey /\ stripeBackend' = stripeBackend
          /\ LET c == IF last'.op = "Next" THEN last.iter.query.c
                      ELSE IF last'.via = "package"
                           THEN [B |-> stripeBackend, Key |-> stripeKey]
                           ELSE client
             IN /\ \A i \in 1..Len(last'.reqs) :
                       last'.reqs[i].key = c.Key /\ last'.reqs[i].b = c.B
                /\ last'.op = "List" => last'.iter.query.c = c

C9_ResolvedPerCall == [][C9_Step]_vars

C9_Witness ==
    /\ last.via = "package" /\ last.op = "Get" /\ Sent = 1
    /\ last.reqs[1].key = "sk_2" /\ last.reqs[1].b = "b1"
    /\ stripeKey = "sk_2" /\ nCalls = 2

\* C10: New, Get, Update and Del of a card return a nil record exactly when
\* they fail validation; once the backend was asked the record is non-nil,
\* also when the backend failed.
C10_RecordNilIffRejected ==
    Did("card", Direct)
    => /\ (last.rec = "nil") <=> ~HasOwner(last.params)
       /\ Sent >= 1 => last.rec = "card"

C10_Witness ==
    /\ Did("card", {"Get"}) /\ Sent = 1
    /\ last.reply.err = "api_error" /\ last.err = "api_error" /\ last.rec = "card"

====
